---- MODULE Spec2Model ----
(***************************************************************************)
(* blockoli: project-scoped code-block store (SQLite) behind one mutex,    *)
(* and the HTTP handlers that use it.                                      *)
(*                                                                         *)
(* A project name is a sequence of characters.  A text (SQL TEXT value) is *)
(* a sequence of tokens: the raw string s is <<s>>, the JSON string "s" is *)
(* <<"\"", s, "\"">>, JSON null is <<"null">>.  An Option<String> is <<>>  *)
(* (None) or <<s>> (Some(s)).  A Vec<f32> is [len, head]: len coordinates, *)
(* the first ones listed in head and the others 0.                         *)
(***************************************************************************)
EXTENDS Integers, Sequences, FiniteSets, TLC

\* ------------------------------------------------------------ bounds
\* rows a table can hold before the engine reports the database full
MaxRows == 2
\* blocks the indexer returns for one ingest
MaxBatch == 2
\* records of the project a search is run on, where searches alone are run
MaxStored == 6

VECTOR_SIZE == 384

\* ------------------------------------------------------------ characters
AsciiLetters == {"a", "A", "s"}
AsciiDigits == {"7"}
\* alphabetic or numeric in Unicode, outside ASCII: U+00E9 is e with acute
UnicodeAlnum == {"U+00E9"}

\* char::is_alphanumeric: Unicode Alphabetic or Numeric
is_alphanumeric(c) == c \in AsciiLetters \cup AsciiDigits \cup UnicodeAlnum

\* the characters the specification allows in a project name: [A-Za-z0-9_]
InSpecAlphabet(c) == c \in AsciiLetters \cup AsciiDigits \cup {"_"}

\* SQLite compares identifiers with ASCII case folded
FoldChar(c) == IF c = "A" THEN "a" ELSE c
Fold(name) == [i \in 1..Len(name) |-> FoldChar(name[i])]

\* the project names the clients of one run of the server use
NameUniverses ==
    { { <<"a">>, <<"A">> }, { <<"a">>, <<"U+00E9">> }, { <<>>, <<"a", "-">>, <<"7">> } }

\* names the specification allows: [A-Za-z0-9_]+
SpecValidName(name) ==
    /\ Len(name) > 0
    /\ \A i \in 1..Len(name) : InSpecAlphabet(name[i])

\* ------------------------------------------------------------ blocks
None == <<>>
Some(s) == <<s>>

\* the raw string s as a text
Str(s) == <<s>>

B1 == [node_key |-> Str("k1"), block_type |-> "Function", content |-> Str("c1"),
       class_name |-> None, function_name |-> Some(Str("foo")),
       outgoing_calls |-> <<Str("bar")>>]
B2 == [node_key |-> Str("k2"), block_type |-> "Class", content |-> Str("c2"),
       class_name |-> Some(Str("K")), function_name |-> None,
       outgoing_calls |-> <<>>]

\* the blocks of the directory a request names, in the order
\* asterisk::indexer::index_directory returns them
DirectoryBlock(i) == IF i % 2 = 1 THEN B1 ELSE B2
\* what index_directory can return: the first n blocks of the directory
Batches == { [i \in 1..n |-> DirectoryBlock(i)] : n \in 0..MaxBatch }

\* the request bodies of the query routes
QueryTexts == {Str("foo")}

\* ------------------------------------------------------------ embedding model
\* MODEL.embed on one text, when it succeeds with the model's dimension
ModelEmbed(text) ==
    [len |-> VECTOR_SIZE,
     head |-> IF text = Str("c1") THEN <<1, 0>>
              ELSE IF text = Str("c2") THEN <<0, 2>>
              ELSE <<1, 1>>]

\* what a call of the capability can do: succeed, return Err, or return
\* vectors of another length
EmbedResults == {"ok", "err", "wrongdim"}

\* ------------------------------------------------------------ serde_json
\* serde_json::to_string of a String, an Option<String>, a Vec<String>,
\* a BlockType (a unit variant: its name as a JSON string) and a Vec<f32>
to_string_str(t) == <<"\"">> \o t \o <<"\"">>
\* to_string of an Option<String>, had it written the string itself and
\* nothing for None
to_string_opt_raw(o) == IF o = None THEN <<>> ELSE o[1]

to_string_opt(o) == IF o = None THEN <<"null">> ELSE to_string_str(o[1])

RECURSIVE to_string_items(_)
to_string_items(v) ==
    IF Len(v) = 0 THEN <<>>
    ELSE IF Len(v) = 1 THEN to_string_str(v[1])
    ELSE to_string_str(v[1]) \o <<",">> \o to_string_items(Tail(v))
to_string_vec(v) == <<"[">> \o to_string_items(v) \o <<"]">>

to_string_block_type(b) == to_string_str(Str(b))

to_string_f32s(vec) == <<"[", vec, "]">>

\* serde_json::from_str at the same types
ParseErr == [ok |-> FALSE]
ParseOk(v) == [ok |-> TRUE, val |-> v]

from_str_str(t) ==
    IF /\ Len(t) >= 2
       /\ t[1] = "\"" /\ t[Len(t)] = "\""
       /\ \A i \in 2..(Len(t) - 1) : t[i] \notin {"\"", ",", "[", "]", "null"}
    THEN ParseOk(SubSeq(t, 2, Len(t) - 1))
    ELSE ParseErr

from_str_opt(t) ==
    IF t = <<"null">> THEN ParseOk(None)
    ELSE IF from_str_str(t).ok THEN ParseOk(Some(from_str_str(t).val))
    ELSE ParseErr

\* the position of the first "," of t, or 0
RECURSIVE FirstComma(_, _)
FirstComma(t, i) ==
    IF i > Len(t) THEN 0 ELSE IF t[i] = "," THEN i ELSE FirstComma(t, i + 1)

RECURSIVE from_str_items(_)
from_str_items(t) ==
    LET c == FirstComma(t, 1)
    IN  IF c = 0
        THEN IF from_str_str(t).ok THEN ParseOk(<<from_str_str(t).val>>) ELSE ParseErr
        ELSE LET h == from_str_str(SubSeq(t, 1, c - 1))
                 r == from_str_items(SubSeq(t, c + 1, Len(t)))
             IN  IF h.ok /\ r.ok THEN ParseOk(<<h.val>> \o r.val) ELSE ParseErr
from_str_vec(t) ==
    IF Len(t) >= 2 /\ t[1] = "[" /\ t[Len(t)] = "]"
    THEN IF Len(t) = 2 THEN ParseOk(<<>>)
         ELSE from_str_items(SubSeq(t, 2, Len(t) - 1))
    ELSE ParseErr

from_str_block_type(t) ==
    IF from_str_str(t).ok /\ Len(from_str_str(t).val) = 1
    THEN ParseOk(from_str_str(t).val[1])
    ELSE ParseErr

from_str_f32s(t) ==
    IF Len(t) = 3 /\ t[1] = "[" /\ t[3] = "]" THEN ParseOk(t[2]) ELSE ParseErr

unwrap_or_default(p) == IF p.ok THEN p.val ELSE None

\* ------------------------------------------------------------ SQLite engine
\* A database is a function from the names of its tables, as written in the
\* CREATE TABLE that made them, to their rows in rowid order.  A row is
\* <<id, node_key, block_type, content, class_name, function_name,
\*   outgoing_calls, vectors>>; Col(row, i) is rusqlite's row.get(i).
Col(row, i) == row[i + 1]

SqlKeywords == { <<"a", "s">> }

\* the name, interpolated into a statement, is read as one identifier
SqlIdentOk(name) ==
    /\ Len(name) > 0
    /\ name[1] \notin AsciiDigits
    /\ \A i \in 1..Len(name) : is_alphanumeric(name[i]) \/ name[i] = "_"
    /\ Fold(name) \notin SqlKeywords

\* the tables an identifier in a statement resolves to (at most one)
TablesNamed(db, name) == { t \in DOMAIN db : Fold(t) = Fold(name) }
TableNamed(db, name) == CHOOSE t \in TablesNamed(db, name) : TRUE

\* DROP TABLE, had it left the table and its rows in place
DropTableKeeps(db, t) == db

DropTable(db, t) == [u \in DOMAIN db \ {t} |-> db[u]]
AddTable(db, t) == [u \in DOMAIN db \cup {t} |-> IF u = t THEN <<>> ELSE db[u]]

\* ------------------------------------------------------------ results
Ok(v) == [tag |-> "Ok", val |-> v]
Err == [tag |-> "Err"]
Panic(cause) == [tag |-> "Panic", cause |-> cause]

\* ------------------------------------------------------------ SQLite (sqlite.rs)
\* TRUE when the check passes; the caller panics otherwise
validate_project_name(project_name) ==
    \A i \in 1..Len(project_name) :
        is_alphanumeric(project_name[i]) \/ project_name[i] = "_"

InvalidName == Panic("InvalidProjectName")

\* does_project_exist, had it resolved the name the way the engine resolves
\* an identifier
does_project_exist_folded(db, project_name) ==
    IF ~validate_project_name(project_name) THEN InvalidName
    ELSE Ok(TablesNamed(db, project_name) # {})

\* SELECT name FROM sqlite_master WHERE type='table' AND name=?
does_project_exist(db, project_name) ==
    IF ~validate_project_name(project_name) THEN InvalidName
    ELSE Ok(project_name \in DOMAIN db)

\* CREATE TABLE IF NOT EXISTS {project_name} (...)
create_table(db, project_name) ==
    IF ~validate_project_name(project_name) THEN [db |-> db, res |-> InvalidName]
    ELSE IF ~SqlIdentOk(project_name) THEN [db |-> db, res |-> Err]
    ELSE IF TablesNamed(db, project_name) # {} THEN [db |-> db, res |-> Ok(TRUE)]
    ELSE [db |-> AddTable(db, project_name), res |-> Ok(TRUE)]

\* DROP TABLE IF EXISTS {project_name}; VACUUM
delete_project(db, project_name) ==
    IF ~validate_project_name(project_name) THEN [db |-> db, res |-> InvalidName]
    ELSE IF ~SqlIdentOk(project_name) THEN [db |-> db, res |-> Err]
    ELSE IF TablesNamed(db, project_name) = {} THEN [db |-> db, res |-> Ok(TRUE)]
    ELSE [db |-> DropTable(db, TableNamed(db, project_name)), res |-> Ok(TRUE)]

\* the statement can be prepared: the name is an identifier of a table
Prepares(db, project_name) ==
    SqlIdentOk(project_name) /\ TablesNamed(db, project_name) # {}

RowsOf(db, project_name) == db[TableNamed(db, project_name)]

\* SELECT COUNT(*) FROM {project_name}, with `io` whether the engine fails the
\* query for a reason of its own; every error of the query gives None
get_project_info(db, project_name, io) ==
    IF ~validate_project_name(project_name) THEN InvalidName
    ELSE IF Prepares(db, project_name) /\ ~io
    THEN Ok(Some([name |-> project_name,
                  total_code_blocks |-> Len(RowsOf(db, project_name))]))
    ELSE Ok(None)

\* the row one INSERT of insert_blocks adds to a table holding `rows`
InsertedRow(rows, block) ==
    << Len(rows) + 1,
       block.block.node_key,
       to_string_block_type(block.block.block_type),
       block.block.content,
       to_string_opt(block.block.class_name),
       to_string_opt(block.block.function_name),
       to_string_vec(block.block.outgoing_calls),
       to_string_f32s(block.vectors) >>

\* the INSERT, had the table kept one row per node_key
insert_one_dedup(db, project_name, block, io) ==
    IF \/ ~Prepares(db, project_name)
       \/ io
       \/ Len(RowsOf(db, project_name)) >= MaxRows
    THEN [db |-> db, res |-> Err]
    ELSE LET t == TableNamed(db, project_name)
         IN  IF \E i \in 1..Len(db[t]) : Col(db[t][i], 1) = block.block.node_key
             THEN [db |-> db, res |-> Ok(TRUE)]
             ELSE [db |-> [db EXCEPT ![t] = Append(@, InsertedRow(@, block))],
                   res |-> Ok(TRUE)]

\* transaction.execute(INSERT INTO {project_name} ...): Err when the statement
\* cannot be prepared, when the engine fails (io) or when the database is full
insert_one(db, project_name, block, io) ==
    IF \/ ~Prepares(db, project_name)
       \/ io
       \/ Len(RowsOf(db, project_name)) >= MaxRows
    THEN [db |-> db, res |-> Err]
    ELSE LET t == TableNamed(db, project_name)
         IN  [db |-> [db EXCEPT ![t] = Append(@, InsertedRow(@, block))],
              res |-> Ok(TRUE)]

\* the closure of query_map that turns a row into a Block
RowParses(row) ==
    /\ from_str_block_type(Col(row, 2)).ok
    /\ from_str_vec(Col(row, 6)).ok
row_to_block(row) ==
    [node_key |-> Col(row, 1),
     block_type |-> from_str_block_type(Col(row, 2)).val,
     content |-> Col(row, 3),
     class_name |-> unwrap_or_default(from_str_opt(Col(row, 4))),
     function_name |-> unwrap_or_default(from_str_opt(Col(row, 5))),
     outgoing_calls |-> from_str_vec(Col(row, 6)).val]

QueryBlocks(rows) ==
    IF \E i \in 1..Len(rows) : ~RowParses(rows[i]) THEN Panic("StorageFailure")
    ELSE Ok([i \in 1..Len(rows) |-> row_to_block(rows[i])])

\* WHERE function_name != ''
FunctionNameNotEmpty(row) == Col(row, 5) # <<>>

get_all_function_blocks(db, project_name) ==
    IF ~validate_project_name(project_name) THEN InvalidName
    ELSE IF ~Prepares(db, project_name) THEN Err
    ELSE QueryBlocks(SelectSeq(RowsOf(db, project_name), FunctionNameNotEmpty))

\* the columns of a project table, by position
ColumnNames == << "id", "node_key", "block_type", "content", "class_name",
                  "function_name", "outgoing_calls", "vectors" >>
HasColumn(c) == \E i \in 1..Len(ColumnNames) : ColumnNames[i] = c
ColNamed(row, c) == row[CHOOSE i \in 1..Len(ColumnNames) : ColumnNames[i] = c]

\* x LIKE '%needle%': needle occurs in x
Contains(x, needle) ==
    \E i \in 0..(Len(x) - Len(needle)) : SubSeq(x, i + 1, i + Len(needle)) = needle

\* WHERE function_name != '' AND code LIKE ?
FunctionCodeLike(row, search_code) ==
    Col(row, 5) # <<>> /\ Contains(ColNamed(row, "code"), search_code)

search_from_function_blocks(db, project_name, search_code) ==
    IF ~validate_project_name(project_name) THEN InvalidName
    ELSE IF ~Prepares(db, project_name) \/ ~HasColumn("code") THEN Err
    ELSE QueryBlocks(SelectSeq(RowsOf(db, project_name),
                               LAMBDA row : FunctionCodeLike(row, search_code)))

\* WHERE function_name != '' AND function_name = ?
FunctionNameIs(row, function_name) ==
    Col(row, 5) # <<>> /\ Col(row, 5) = function_name

search_by_function_name(db, project_name, function_name) ==
    IF ~validate_project_name(project_name) THEN InvalidName
    ELSE IF ~Prepares(db, project_name) THEN Err
    ELSE QueryBlocks(SelectSeq(RowsOf(db, project_name),
                               LAMBDA row : FunctionNameIs(row, function_name)))

\* get_code_vectors, had it missed the newest row of the table
get_code_vectors_stale(db, project_name) ==
    IF ~validate_project_name(project_name) THEN InvalidName
    ELSE IF ~Prepares(db, project_name) THEN Err
    ELSE LET rows == RowsOf(db, project_name)
         IN  Ok([i \in 1..(Len(rows) - 1) |->
                    [point |-> from_str_f32s(Col(rows[i], 7)).val,
                     code |-> Col(rows[i], 2)]])

\* SELECT * FROM {project_name}: each row's vectors with row.get(2)
get_code_vectors(db, project_name) ==
    IF ~validate_project_name(project_name) THEN InvalidName
    ELSE IF ~Prepares(db, project_name) THEN Err
    ELSE LET rows == RowsOf(db, project_name)
         IN  IF \E i \in 1..Len(rows) :
                    \/ ~from_str_f32s(Col(rows[i], 7)).ok
                    \/ from_str_f32s(Col(rows[i], 7)).val.len # VECTOR_SIZE
             THEN Panic("StorageFailure")
             ELSE Ok([i \in 1..Len(rows) |->
                        [point |-> from_str_f32s(Col(rows[i], 7)).val,
                         code |-> Col(rows[i], 2)]])

\* ------------------------------------------------------------ Embeddings (encoder.rs)
\* generate_vector_set, had it answered whatever the capability does
generate_vector_set_lossy(code_blocks, result) ==
    Ok([i \in 1..Len(code_blocks) |->
           [point |-> ModelEmbed(code_blocks[i]), code |-> code_blocks[i]]])

\* generate_vector_set, had it cut or padded what the capability answers to
\* some length and gone on
generate_vector_set_anydim(code_blocks, result) ==
    IF result = "err" THEN Err
    ELSE Ok([i \in 1..Len(code_blocks) |->
                [point |-> IF result = "wrongdim"
                           THEN [ModelEmbed(code_blocks[i]) EXCEPT !.len = VECTOR_SIZE - 1]
                           ELSE ModelEmbed(code_blocks[i]),
                 code |-> code_blocks[i]]])

\* generate_vector_set, had it paired the vectors with the texts in the
\* opposite order
generate_vector_set_reversed(code_blocks, result) ==
    IF result = "err" THEN Err
    ELSE IF result = "wrongdim" THEN Panic("EmbeddingFailure")
    ELSE Ok([i \in 1..Len(code_blocks) |->
                [point |-> ModelEmbed(code_blocks[Len(code_blocks) + 1 - i]),
                 code |-> code_blocks[i]]])

\* MODEL.embed(code_blocks), with `result` what the capability does
generate_vector_set(code_blocks, result) ==
    IF result = "err" THEN Err
    ELSE IF result = "wrongdim" THEN Panic("EmbeddingFailure")
    ELSE Ok([i \in 1..Len(code_blocks) |->
                [point |-> ModelEmbed(code_blocks[i]), code |-> code_blocks[i]]])

generate_code_vector(code, result) ==
    IF result = "err" THEN Err
    ELSE IF result = "wrongdim" THEN Panic("EmbeddingFailure")
    ELSE Ok([point |-> ModelEmbed(code), code |-> code])

\* squared Euclidean distance; coordinates past the listed ones are 0
SqDist(p, q) ==
    (p.head[1] - q.head[1]) * (p.head[1] - q.head[1])
    + (p.head[2] - q.head[2]) * (p.head[2] - q.head[2])

\* the first position of `points` at minimum distance to query
NearestIndex(points, query) ==
    CHOOSE i \in 1..Len(points) :
        /\ \A j \in 1..Len(points) :
              SqDist(points[i].point, query.point) <= SqDist(points[j].point, query.point)
        /\ \A j \in 1..(i - 1) :
              SqDist(points[j].point, query.point) > SqDist(points[i].point, query.point)

RemoveAt(q, i) == SubSeq(q, 1, i - 1) \o SubSeq(q, i + 1, Len(q))

RECURSIVE Nearests(_, _, _)
\* kdtree.nearests(&query, matches): ascending by distance
Nearests(points, query, matches) ==
    IF matches = 0 \/ points = <<>> THEN <<>>
    ELSE LET i == NearestIndex(points, query)
         IN  <<points[i]>> \o Nearests(RemoveAt(points, i), query, matches - 1)

\* Embeddings::search, had nearest() of an empty tree answered nothing
\* instead of None
Embeddings_search_unchecked(vector_set, code, matches, result) ==
    LET query == generate_code_vector(code, result)
    IN  IF query.tag # "Ok" THEN query
        ELSE IF vector_set = <<>> THEN Ok([nearest |-> <<>>, k_nearest |-> <<>>])
        ELSE LET k_nearest == Nearests(vector_set, query.val, matches)
             IN  Ok([nearest |-> vector_set[NearestIndex(vector_set, query.val)].code,
                     k_nearest |-> [i \in 1..Len(k_nearest) |-> k_nearest[i].code]])

\* Embeddings::search, had it answered the point stored last as the nearest
Embeddings_search_last(vector_set, code, matches, result) ==
    LET query == generate_code_vector(code, result)
    IN  IF query.tag # "Ok" THEN query
        ELSE IF vector_set = <<>> THEN Panic("EmptyIndex")
        ELSE LET k_nearest == Nearests(vector_set, query.val, matches)
             IN  Ok([nearest |-> vector_set[Len(vector_set)].code,
                     k_nearest |-> [i \in 1..Len(k_nearest) |-> k_nearest[i].code]])

\* Embeddings::search
Embeddings_search(vector_set, code, matches, result) ==
    LET query == generate_code_vector(code, result)
    IN  IF query.tag # "Ok" THEN query
        ELSE IF vector_set = <<>> THEN Panic("EmptyIndex")
        ELSE LET k_nearest == Nearests(vector_set, query.val, matches)
             IN  Ok([nearest |-> vector_set[NearestIndex(vector_set, query.val)].code,
                     k_nearest |-> [i \in 1..Len(k_nearest) |-> k_nearest[i].code]])

\* ------------------------------------------------------------ VectorStore (vector_store.rs)
\* .unwrap() of a storage Result
Unwrap(res) == IF res.tag = "Err" THEN Panic("StorageFailure") ELSE res
\* .unwrap() of an embedding Result
UnwrapEmbedding(res) == IF res.tag = "Err" THEN Panic("EmbeddingFailure") ELSE res

\* the k of VectorStore::search
SearchMatches == 5

\* VectorStore::search, had it asked for one match
VectorStore_search_one(db, project_name, search_code, result) ==
    LET code_vectors == Unwrap(get_code_vectors(db, project_name))
    IN  IF code_vectors.tag # "Ok" THEN code_vectors
        ELSE UnwrapEmbedding(Embeddings_search(code_vectors.val, search_code, 1, result))

VectorStore_search(db, project_name, search_code, result) ==
    LET code_vectors == Unwrap(get_code_vectors(db, project_name))
    IN  IF code_vectors.tag # "Ok" THEN code_vectors
        ELSE UnwrapEmbedding(
                 Embeddings_search(code_vectors.val, search_code, SearchMatches, result))

\* ------------------------------------------------------------ state
\* the requests the server handles at one time (one per worker)
Reqs == {"r1", "r2"}

NoLock == "none"

SingleKinds == {"create_project", "delete_project", "project_info"}
DataKinds == {"search_embeddings", "search_function_blocks", "search_by_function_name"}
CheckedKinds == DataKinds \cup {"generate_embeddings", "get_all_function_blocks"}
Kinds == SingleKinds \cup CheckedKinds
\* the routes that change the store
WriterKinds == {"create_project", "delete_project", "generate_embeddings"}
\* the routes worker r serves: two requests that only read do not affect
\* one another, so of two concurrent requests one is taken to be a writer
KindsOf(r) == IF r = "r1" THEN Kinds ELSE WriterKinds

NoReq == [kind |-> "none", name |-> <<>>, data |-> <<>>, blocks |-> <<>>]
NoResp == [status |-> "none", body |-> <<>>]
NotSeen == [existed |-> FALSE, rows |-> 0]

VARIABLES
    tables,     \* the database of the one Connection, uncommitted rows included
    journal,    \* <<db>>: the database at the start of the open transaction; <<>>: none
    txnPos,     \* blocks insert_blocks has executed in the open transaction
    ingested,   \* per table, the blocks committed to it since it was created
    lock,       \* the holder of AppState.vector_store, or NoLock
    pc,         \* per request, where its handler stands
    req,        \* per request, its route, project name, body and embedded blocks
    called,     \* per request, the store and embedding calls its handler made
    seen,       \* per request, what the store call that ended it found for its project
    resp,       \* per request, the response (or the panic that ended it)
    names,      \* the project names the clients of this run use
    overtaken   \* history: the ingests in flight whose project was dropped after
                \* they passed their existence check

vars == <<tables, journal, txnPos, ingested, lock, pc, req, called, seen, resp, names,
         overtaken>>

Init ==
    /\ tables = <<>>
    /\ journal = <<>>
    /\ txnPos = 0
    /\ ingested = <<>>
    /\ lock = NoLock
    /\ pc = [r \in Reqs |-> "idle"]
    /\ req = [r \in Reqs |-> NoReq]
    /\ called = [r \in Reqs |-> <<>>]
    /\ seen = [r \in Reqs |-> NotSeen]
    /\ resp = [r \in Reqs |-> NoResp]
    /\ names \in NameUniverses
    /\ overtaken = {}

\* the ingested counts carried over to the tables of db
IngestedOver(db) ==
    [t \in DOMAIN db |-> IF t \in DOMAIN ingested THEN ingested[t] ELSE 0]

\* HTTP status of a result, or the cause of the panic that ends the handler
StatusOf(res) == IF res.tag = "Ok" THEN "OK" ELSE res.cause

Respond(r, status, body) ==
    /\ pc' = [pc EXCEPT ![r] = "done"]
    /\ resp' = [resp EXCEPT ![r] = [status |-> status, body |-> body]]

\* the handler of r has made the calls `entries`
Log(r, entries) == called' = [called EXCEPT ![r] = @ \o entries]

\* what the store call that ends the handler of r finds for its project
See(r) ==
    seen' = [seen EXCEPT ![r] =
               [existed |-> req[r].name \in DOMAIN tables,
                rows |-> IF TablesNamed(tables, req[r].name) # {}
                         THEN Len(RowsOf(tables, req[r].name)) ELSE 0]]

\* the handler of r makes the store call `what` and ends with it
Call(r, what) == Log(r, <<what>>) /\ See(r)

\* what the log keeps of a call of the embedding capability
Embedded(result) ==
    IF result = "ok" THEN "embedded"
    ELSE IF result = "err" THEN "embedding failed"
    ELSE "wrong dimension"

\* what the log keeps of a statement the engine ran
Queried(io) == IF io THEN "storage error" ELSE "queried"

\* the end of the statement, had the guard not been dropped
UnlockNever == lock' = lock

\* the drop of the MutexGuard at the end of the statement (or while unwinding)
Unlock == lock' = NoLock

\* no response is waiting to be sent.  Sending a response touches only the
\* record of its own request, so it is taken before any other step: every
\* state of the store and of the handlers in flight is still reached
Delivered == \A r \in Reqs : pc[r] # "done"

\* ------------------------------------------------------------ requests
\* a request arrives at a free worker
Start(r) ==
    /\ Delivered
    /\ pc[r] = "idle"
    /\ \E kind \in KindsOf(r), name \in names, data \in QueryTexts :
          req' = [req EXCEPT ![r] =
                    [kind |-> kind, name |-> name,
                     data |-> IF kind \in DataKinds THEN data ELSE <<>>,
                     blocks |-> <<>>]]
    /\ pc' = [pc EXCEPT ![r] = "wait1"]
    /\ UNCHANGED <<tables, journal, txnPos, ingested, lock, called, seen, resp>>
    /\ UNCHANGED <<names, overtaken>>

\* the response is sent (or the panic has closed the connection) and the
\* worker is free again
Deliver(r) ==
    /\ pc[r] = "done"
    /\ pc' = [pc EXCEPT ![r] = "idle"]
    /\ req' = [req EXCEPT ![r] = NoReq]
    /\ called' = [called EXCEPT ![r] = <<>>]
    /\ seen' = [seen EXCEPT ![r] = NotSeen]
    /\ resp' = [resp EXCEPT ![r] = NoResp]
    /\ overtaken' = overtaken \ {r}
    /\ UNCHANGED <<tables, journal, txnPos, ingested, lock>>
    /\ UNCHANGED names

\* lock(), had it not waited for the holder
LockUnguarded(r) ==
    /\ Delivered
    /\ pc[r] \in {"wait1", "wait2"}
    /\ lock' = r
    /\ pc' = [pc EXCEPT ![r] = IF pc[r] = "wait1" THEN "cs1" ELSE "cs2"]
    /\ UNCHANGED <<tables, journal, txnPos, ingested, req, called, seen, resp>>
    /\ UNCHANGED <<names, overtaken>>

\* app_state.vector_store.lock()
Lock(r) ==
    /\ Delivered
    /\ pc[r] \in {"wait1", "wait2"}
    /\ lock = NoLock
    /\ lock' = r
    /\ pc' = [pc EXCEPT ![r] = IF pc[r] = "wait1" THEN "cs1" ELSE "cs2"]
    /\ UNCHANGED <<tables, journal, txnPos, ingested, req, called, seen, resp>>
    /\ UNCHANGED <<names, overtaken>>

\* routes::create_project
create_project(r) ==
    /\ Delivered
    /\ pc[r] = "cs1" /\ lock = r /\ req[r].kind = "create_project"
    /\ LET o == create_table(tables, req[r].name)
           res == Unwrap(o.res)
       IN  /\ tables' = o.db
           /\ ingested' = IngestedOver(o.db)
           /\ Respond(r, StatusOf(res), <<>>)
    /\ Call(r, "create_table")
    /\ Unlock
    /\ UNCHANGED <<journal, txnPos, req>>
    /\ UNCHANGED <<names, overtaken>>

\* the ingests between their existence check and their insert_blocks whose
\* table the statement that took db to after dropped
Overtaken(db, after) ==
    { q \in Reqs : /\ req[q].kind = "generate_embeddings"
                   /\ pc[q] \in {"embed", "wait2"}
                   /\ TablesNamed(db, req[q].name) # {}
                   /\ TablesNamed(after, req[q].name) = {} }

\* routes::delete_project
route_delete_project(r) ==
    /\ Delivered
    /\ pc[r] = "cs1" /\ lock = r /\ req[r].kind = "delete_project"
    /\ LET o == delete_project(tables, req[r].name)
           res == Unwrap(o.res)
       IN  /\ tables' = o.db
           /\ ingested' = IngestedOver(o.db)
           /\ overtaken' = overtaken \cup Overtaken(tables, o.db)
           /\ Respond(r, StatusOf(res), <<>>)
    /\ Call(r, "delete_project")
    /\ Unlock
    /\ UNCHANGED <<journal, txnPos, req>>
    /\ UNCHANGED names

\* routes::project_info
project_info(r) ==
    /\ Delivered
    /\ pc[r] = "cs1" /\ lock = r /\ req[r].kind = "project_info"
    /\ \E io \in BOOLEAN :
          LET res == Unwrap(get_project_info(tables, req[r].name, io))
          IN  /\ IF res.tag = "Ok"
                 THEN IF res.val = None
                      THEN Respond(r, "NotFound", <<>>)
                      ELSE Respond(r, "OK", res.val)
                 ELSE Respond(r, StatusOf(res), <<>>)
              /\ Log(r, <<"get_project_info", Queried(io)>>)
              /\ See(r)
    /\ Unlock
    /\ UNCHANGED <<tables, journal, txnPos, ingested, req>>
    /\ UNCHANGED <<names, overtaken>>

\* the existence check that opens generate_embeddings, search_embeddings,
\* get_all_function_blocks, search_function_blocks and search_by_function_name
check_project_exists(r) ==
    /\ Delivered
    /\ pc[r] = "cs1" /\ lock = r /\ req[r].kind \in CheckedKinds
    /\ LET res == Unwrap(does_project_exist(tables, req[r].name))
       IN  IF res.tag = "Ok"
           THEN IF res.val
                THEN /\ pc' = [pc EXCEPT ![r] =
                                 IF req[r].kind = "generate_embeddings"
                                 THEN "embed" ELSE "wait2"]
                     /\ UNCHANGED <<resp, seen>>
                ELSE Respond(r, "NotFound", <<>>) /\ See(r)
           ELSE Respond(r, StatusOf(res), <<>>) /\ See(r)
    /\ Log(r, <<"does_project_exist">>)
    /\ Unlock
    /\ UNCHANGED <<tables, journal, txnPos, ingested, req>>
    /\ UNCHANGED <<names, overtaken>>

\* routes::generate_embeddings, from the indexing of the directory to the
\* embedded blocks; `blocks` is what index_directory returns
generate_embeddings_embed(r) ==
    /\ Delivered
    /\ pc[r] = "embed"
    /\ \E blocks \in Batches, result \in EmbedResults :
          LET code_blocks == [i \in 1..Len(blocks) |-> blocks[i].content]
              code_vectors == UnwrapEmbedding(generate_vector_set(code_blocks, result))
          IN  /\ Log(r, <<"generate_vector_set", Embedded(result)>>)
              /\ IF code_vectors.tag = "Ok"
                 THEN /\ req' = [req EXCEPT ![r].blocks =
                                   [i \in 1..Len(blocks) |->
                                       [block |-> blocks[i],
                                        vectors |-> code_vectors.val[i].point]]]
                      /\ pc' = [pc EXCEPT ![r] = "wait2"]
                      /\ UNCHANGED resp
                 ELSE /\ Respond(r, StatusOf(code_vectors), <<>>)
                      /\ UNCHANGED req
    /\ UNCHANGED <<tables, journal, txnPos, ingested, lock, seen>>
    /\ UNCHANGED <<names, overtaken>>

\* the end of a transaction, had its drop kept the rows executed so far
RollbackKeeps(db, jrnl) == db

\* the end of a transaction that was not committed: Transaction's drop rolls
\* the database back to where the transaction began
Rollback(db, jrnl) == jrnl[1]

\* SQLite::insert_blocks up to conn.transaction()
insert_blocks_begin(r) ==
    /\ Delivered
    /\ pc[r] = "cs2" /\ lock = r /\ req[r].kind = "generate_embeddings"
    /\ Call(r, "insert_blocks")
    /\ \E io \in BOOLEAN :
          IF ~validate_project_name(req[r].name)
          THEN /\ Respond(r, "InvalidProjectName", <<>>)
               /\ Unlock
               /\ UNCHANGED <<journal, txnPos>>
          ELSE IF io
          THEN /\ Respond(r, "StorageFailure", <<>>)
               /\ Unlock
               /\ UNCHANGED <<journal, txnPos>>
          ELSE /\ journal' = <<tables>>
               /\ txnPos' = 0
               /\ pc' = [pc EXCEPT ![r] = "txn"]
               /\ UNCHANGED <<resp, lock>>
    /\ UNCHANGED <<tables, ingested, req>>
    /\ UNCHANGED <<names, overtaken>>

\* one turn of the loop of SQLite::insert_blocks
insert_blocks_execute(r) ==
    /\ Delivered
    /\ pc[r] = "txn" /\ lock = r
    /\ txnPos < Len(req[r].blocks)
    /\ \E io \in BOOLEAN :
          LET o == insert_one(tables, req[r].name, req[r].blocks[txnPos + 1], io)
          IN  IF o.res.tag = "Ok"
              THEN /\ tables' = o.db
                   /\ txnPos' = txnPos + 1
                   /\ Log(r, <<"execute">>)
                   /\ UNCHANGED <<journal, pc, resp, lock>>
              ELSE /\ tables' = Rollback(tables, journal)
                   /\ journal' = <<>>
                   /\ txnPos' = 0
                   /\ Log(r, <<"rollback">>)
                   /\ Respond(r, "StorageFailure", <<>>)
                   /\ Unlock
    /\ UNCHANGED <<ingested, req, seen>>
    /\ UNCHANGED <<names, overtaken>>

\* transaction.commit() and the rest of routes::generate_embeddings
insert_blocks_commit(r) ==
    /\ Delivered
    /\ pc[r] = "txn" /\ lock = r
    /\ txnPos = Len(req[r].blocks)
    /\ \E io \in BOOLEAN :
          IF io
          THEN /\ tables' = Rollback(tables, journal)
               /\ Log(r, <<"rollback">>)
               /\ Respond(r, "StorageFailure", <<>>)
               /\ UNCHANGED ingested
          ELSE /\ UNCHANGED tables
               /\ ingested' =
                    [t \in DOMAIN ingested |->
                        IF t \in TablesNamed(tables, req[r].name)
                        THEN ingested[t] + Len(req[r].blocks) ELSE ingested[t]]
               /\ Log(r, <<"commit">>)
               /\ Respond(r, "OK", <<>>)
    /\ journal' = <<>>
    /\ txnPos' = 0
    /\ Unlock
    /\ UNCHANGED <<req, seen>>
    /\ UNCHANGED <<names, overtaken>>

\* routes::search_embeddings after the existence check
search_embeddings(r) ==
    /\ Delivered
    /\ pc[r] = "cs2" /\ lock = r /\ req[r].kind = "search_embeddings"
    /\ \E result \in EmbedResults :
          LET res == VectorStore_search(tables, req[r].name, req[r].data, result)
          IN  /\ Respond(r, StatusOf(res), IF res.tag = "Ok" THEN res.val ELSE <<>>)
              /\ Log(r, <<"search", Embedded(result)>>)
    /\ See(r)
    /\ Unlock
    /\ UNCHANGED <<tables, journal, txnPos, ingested, req>>
    /\ UNCHANGED <<names, overtaken>>

\* what the three block queries answer
BlockQuery(db, kind, project_name, data) ==
    IF kind = "get_all_function_blocks"
    THEN get_all_function_blocks(db, project_name)
    ELSE IF kind = "search_function_blocks"
    THEN search_from_function_blocks(db, project_name, data)
    ELSE search_by_function_name(db, project_name, data)

\* routes::get_all_function_blocks, search_function_blocks and
\* search_by_function_name after the existence check
query_blocks(r) ==
    /\ Delivered
    /\ pc[r] = "cs2" /\ lock = r
    /\ req[r].kind \in {"get_all_function_blocks", "search_function_blocks",
                        "search_by_function_name"}
    /\ LET res == Unwrap(BlockQuery(tables, req[r].kind, req[r].name, req[r].data))
       IN  Respond(r, StatusOf(res), IF res.tag = "Ok" THEN res.val ELSE <<>>)
    /\ Call(r, req[r].kind)
    /\ Unlock
    /\ UNCHANGED <<tables, journal, txnPos, ingested, req>>
    /\ UNCHANGED <<names, overtaken>>

Next ==
    \E r \in Reqs :
        \/ Start(r)
        \/ Deliver(r)
        \/ Lock(r)
        \/ create_project(r)
        \/ route_delete_project(r)
        \/ project_info(r)
        \/ check_project_exists(r)
        \/ generate_embeddings_embed(r)
        \/ insert_blocks_begin(r)
        \/ insert_blocks_execute(r)
        \/ insert_blocks_commit(r)
        \/ search_embeddings(r)
        \/ query_blocks(r)

Spec == Init /\ [][Next]_vars

\* ------------------------------------------------------------ properties
\* the step is the store call request r makes under the lock
StoreCall(r) ==
    /\ lock = r
    /\ pc[r] \in {"cs1", "cs2"}
    /\ pc'[r] # pc[r]

\* the step ends the handler of request r
Ends(r) == pc[r] # "done" /\ pc'[r] = "done"

\* whether project q exists in db and, if so, its records
ProjectOf(db, q) == IF q \in DOMAIN db THEN <<db[q]>> ELSE <<>>

Last(q) == q[Len(q)]

\* C1: a store operation given a project name with a character outside
\* [A-Za-z0-9_] fails with InvalidProjectName, and the projects and their
\* records are after the call what they were before it
C1_OutsideAlphabetRejected ==
    [][\A r \in Reqs :
          (/\ StoreCall(r)
           /\ \E i \in 1..Len(req[r].name) : ~InSpecAlphabet(req[r].name[i]))
          => /\ Ends(r)
             /\ resp'[r].status = "InvalidProjectName"
             /\ tables' = tables]_vars

\* C2: a store operation given the empty project name is rejected with
\* InvalidProjectName, without a statement reaching the engine
C2_EmptyNameRejected ==
    [][\A r \in Reqs :
          (StoreCall(r) /\ req[r].name = <<>>)
          => /\ Ends(r)
             /\ resp'[r].status = "InvalidProjectName"
             /\ tables' = tables]_vars

\* C3: a step of a request addressed to a valid name p leaves every project
\* of another valid name q as it was (its existence and its records), and a
\* project_info of p that succeeds counts the records of the project p
C3_ProjectsIsolated ==
    [][\A r \in Reqs : \A q \in names :
          (/\ lock = r
           /\ pc'[r] # pc[r] \/ called'[r] # called[r]
           /\ SpecValidName(req[r].name)
           /\ SpecValidName(q)
           /\ q # req[r].name)
          => /\ ProjectOf(tables', q) = ProjectOf(tables, q)
             /\ (req[r].kind = "project_info" /\ resp'[r].status = "OK")
                => /\ req[r].name \in DOMAIN tables
                   /\ resp'[r].body[1].total_code_blocks = Len(tables[req[r].name])]_vars

\* C4: create_project of a valid name p that exists succeeds and changes
\* nothing; after a create_project(p) that succeeded, project p exists, one
\* table answers to p, and a second create_project(p) succeeds and changes
\* nothing
C4_CreateIdempotent ==
    [][\A r \in Reqs :
          (/\ StoreCall(r)
           /\ req[r].kind = "create_project"
           /\ SpecValidName(req[r].name))
          => /\ req[r].name \in DOMAIN tables
                => resp'[r].status = "OK" /\ tables' = tables
             /\ resp'[r].status = "OK"
                => /\ req[r].name \in DOMAIN tables'
                   /\ Cardinality(TablesNamed(tables', req[r].name)) = 1
                   /\ create_table(tables', req[r].name)
                        = [db |-> tables', res |-> Ok(TRUE)]]_vars

\* C5: delete_project of a valid name p that does not exist succeeds and
\* changes nothing, and after any delete_project(p) project p does not exist
C5_DeleteIdempotent ==
    [][\A r \in Reqs :
          (/\ StoreCall(r)
           /\ req[r].kind = "delete_project"
           /\ SpecValidName(req[r].name))
          => /\ req[r].name \notin DOMAIN tables
                => resp'[r].status = "OK" /\ tables' = tables
             /\ req[r].name \notin DOMAIN tables']_vars

\* the database as a statement outside the open transaction would find it
Committed == IF journal = <<>> THEN tables ELSE journal[1]

RECURSIVE WithBatch(_, _)
\* `rows` followed by one row per block of `blocks`, in order
WithBatch(rows, blocks) ==
    IF blocks = <<>> THEN rows
    ELSE WithBatch(Append(rows, InsertedRow(rows, Head(blocks))), Tail(blocks))

\* C6: when insert_blocks ends, either it succeeded and the project holds
\* its earlier rows followed by one row per block of the batch (nothing for
\* an empty batch), or it failed and the database is the one the call found;
\* while a transaction is open
\* its request holds the lock, and whenever the lock is free every table
\* holds whole batches only
C6_InsertAllOrNothing ==
    /\ [](/\ journal # <<>> => \E r \in Reqs : lock = r /\ pc[r] = "txn"
          /\ lock = NoLock =>
                /\ journal = <<>>
                /\ \A t \in DOMAIN tables : Len(tables[t]) = ingested[t])
    /\ [][\A r \in Reqs :
             (/\ lock = r
              /\ pc[r] \in {"cs2", "txn"}
              /\ req[r].kind = "generate_embeddings"
              /\ Ends(r))
             => LET before == IF pc[r] = "txn" THEN journal[1] ELSE tables
                IN  IF resp'[r].status = "OK" /\ req[r].blocks # <<>>
                    THEN \E t \in DOMAIN before :
                            /\ TablesNamed(before, req[r].name) = {t}
                            /\ tables' = [before EXCEPT
                                            ![t] = WithBatch(@, req[r].blocks)]
                    ELSE tables' = before]_vars

\* an insert_blocks that executed at least one INSERT, failed and was rolled
\* back to the rows it found
C6_Witness ==
    \E r \in Reqs :
        /\ pc[r] = "done"
        /\ resp[r].status = "StorageFailure"
        /\ \E i \in 1..Len(called[r]) : called[r][i] = "execute"
        /\ Last(called[r]) = "rollback"
        /\ Len(RowsOf(tables, req[r].name)) = seen[r].rows

\* C7: a project holds one record per block of every ingest that succeeded
\* since it was created, and a step removes or changes no committed record
\* of a project it does not delete
C7_IngestAdditive ==
    /\ [](\A t \in DOMAIN Committed : Len(Committed[t]) = ingested[t])
    /\ [][\A t \in DOMAIN Committed \cap DOMAIN Committed' :
             /\ Len(Committed'[t]) >= Len(Committed[t])
             /\ SubSeq(Committed'[t], 1, Len(Committed[t])) = Committed[t]]_vars

\* the same block ingested twice is stored twice
C7_Witness ==
    /\ journal = <<>>
    /\ \E t \in DOMAIN tables :
          /\ Len(tables[t]) = 2
          /\ Col(tables[t][1], 1) = Col(tables[t][2], 1)
          /\ Col(tables[t][1], 3) = Col(tables[t][2], 3)
          /\ ingested[t] = 2

\* C8: ingest, find_similar and the three block queries, addressed to a
\* valid name under which no project exists, end with NotFound after the
\* existence check alone, and the store is unchanged
C8_MissingProjectNotFound ==
    [][\A r \in Reqs :
          (/\ StoreCall(r)
           /\ pc[r] = "cs1"
           /\ req[r].kind \in CheckedKinds
           /\ SpecValidName(req[r].name)
           /\ req[r].name \notin DOMAIN tables)
          => /\ Ends(r)
             /\ resp'[r].status = "NotFound"
             /\ called'[r] = <<"does_project_exist">>
             /\ tables' = tables
             /\ journal' = journal]_vars

\* a request answered NotFound for a valid name that differs only in case
\* from the name of a project that exists
C8_Witness ==
    \E r \in Reqs :
        /\ pc[r] = "done"
        /\ req[r].kind \in CheckedKinds
        /\ resp[r].status = "NotFound"
        /\ SpecValidName(req[r].name)
        /\ req[r].name \notin DOMAIN tables
        /\ TablesNamed(tables, req[r].name) # {}

\* C9: an ingest whose embedding fails ends there with EmbeddingFailure:
\* the step changes no table, and the handler has not called insert_blocks
C9_EmbeddingFailureInsertsNothing ==
    /\ [](\A r \in Reqs :
             (req[r].kind = "generate_embeddings"
              /\ \E i \in 1..Len(called[r]) : called[r][i] \in {"embedding failed", "wrong dimension"})
             => /\ pc[r] = "done"
                /\ resp[r].status = "EmbeddingFailure"
                /\ \A i \in 1..Len(called[r]) : called[r][i] # "insert_blocks")
    /\ [][\A r \in Reqs :
             (pc[r] = "embed" /\ Last(called'[r]) \in {"embedding failed", "wrong dimension"})
             => tables' = tables /\ journal' = journal]_vars

\* an ingest into a project that holds records, ended by a failed embedding
C9_Witness ==
    \E r \in Reqs :
        /\ pc[r] = "done"
        /\ req[r].kind = "generate_embeddings"
        /\ resp[r].status = "EmbeddingFailure"
        /\ req[r].name \in DOMAIN tables
        /\ Len(tables[req[r].name]) > 0

\* the search of request r runs on a project that exists and holds no record
SearchesEmpty(r) ==
    /\ StoreCall(r)
    /\ pc[r] = "cs2"
    /\ req[r].kind = "search_embeddings"
    /\ req[r].name \in DOMAIN tables
    /\ tables[req[r].name] = <<>>

\* C10, as stated: find_similar on a project that exists and holds no record
\* fails with EmptyIndex, returns nothing and changes nothing
C10_EmptyProjectEmptyIndex ==
    [][\A r \in Reqs :
          SearchesEmpty(r)
          => /\ Ends(r)
             /\ resp'[r].status = "EmptyIndex"
             /\ resp'[r].body = <<>>
             /\ tables' = tables]_vars

\* C10, amended: find_similar on a project that exists and holds no record
\* fails with EmptyIndex when the embedding of the query succeeds and with
\* EmbeddingFailure when it does not; it returns nothing and changes nothing
C10_EmptyProjectFails ==
    [][\A r \in Reqs :
          SearchesEmpty(r)
          => /\ Ends(r)
             /\ resp'[r].status = IF Last(called'[r]) = "embedded"
                                  THEN "EmptyIndex" ELSE "EmbeddingFailure"
             /\ resp'[r].body = <<>>
             /\ tables' = tables]_vars

\* a find_similar that found its project without records and ended EmptyIndex
C10_Witness ==
    \E r \in Reqs :
        /\ pc[r] = "done"
        /\ req[r].kind = "search_embeddings"
        /\ resp[r].status = "EmptyIndex"
        /\ seen[r].existed
        /\ seen[r].rows = 0

\* the blocks an ingest can store
IngestedBlocks == { DirectoryBlock(i) : i \in 1..MaxBatch }

\* the block that was ingested as `row`
BlockOfRow(row) ==
    CHOOSE b \in IngestedBlocks :
        SubSeq(InsertedRow(<<>>, [block |-> b, vectors |-> ModelEmbed(b.content)]), 2, 8)
            = SubSeq(row, 2, 8)

\* the blocks ingested into a table holding `rows`, in order
StoredBlocks(rows) == [i \in 1..Len(rows) |-> BlockOfRow(rows[i])]

\* the step is the query `kind` of request r on a project that exists
QueryCall(r, kind) ==
    /\ StoreCall(r)
    /\ pc[r] = "cs2"
    /\ req[r].kind = kind
    /\ req[r].name \in DOMAIN tables

\* C11: all_function_blocks on a project that exists answers the blocks of
\* the project that were ingested with a function_name, and only those
C11_AllFunctionBlocks ==
    [][\A r \in Reqs :
          QueryCall(r, "get_all_function_blocks")
          => /\ resp'[r].status = "OK"
             /\ resp'[r].body =
                  SelectSeq(StoredBlocks(tables[req[r].name]),
                            LAMBDA b : b.function_name # None)]_vars

\* C12: search_by_function_name(p, n) answers the blocks of p that were
\* ingested with the function_name n, and only those
C12_SearchByFunctionName ==
    [][\A r \in Reqs :
          QueryCall(r, "search_by_function_name")
          => /\ resp'[r].status = "OK"
             /\ resp'[r].body =
                  SelectSeq(StoredBlocks(tables[req[r].name]),
                            LAMBDA b : b.function_name = Some(req[r].data))]_vars

\* C13: search_text(p, needle) on a project that exists succeeds and answers
\* the blocks of p that have a function_name and whose content contains needle
C13_SearchText ==
    [][\A r \in Reqs :
          QueryCall(r, "search_function_blocks")
          => /\ resp'[r].status = "OK"
             /\ resp'[r].body =
                  SelectSeq(StoredBlocks(tables[req[r].name]),
                            LAMBDA b : /\ b.function_name # None
                                       /\ Contains(b.content, req[r].data))]_vars

\* `text` is the content of a record of `rows`
IsContentOf(text, rows) == \E i \in 1..Len(rows) : Col(rows[i], 3) = text

\* C14: every string a find_similar answers, the nearest and each of the
\* k_nearest, is the content of a record of the queried project
C14_SimilarAnswersContents ==
    [][\A r \in Reqs :
          (QueryCall(r, "search_embeddings") /\ resp'[r].status = "OK")
          => LET rows == tables[req[r].name]
                 body == resp'[r].body
             IN  /\ IsContentOf(body.nearest, rows)
                 /\ \A i \in 1..Len(body.k_nearest) :
                       IsContentOf(body.k_nearest[i], rows)]_vars

C16_ProjectInfo ==
    [][\A r \in Reqs :
          (/\ StoreCall(r)
           /\ req[r].kind = "project_info"
           /\ SpecValidName(req[r].name)
           /\ Last(called'[r]) # "storage error")
          => IF req[r].name \in DOMAIN tables
             THEN /\ resp'[r].status = "OK"
                  /\ resp'[r].body =
                       Some([name |-> req[r].name,
                             total_code_blocks |-> Len(tables[req[r].name])])
             ELSE resp'[r].status = "NotFound"]_vars

\* the requests inside a storage operation
InStore == { r \in Reqs : pc[r] \in {"cs1", "cs2", "txn"} }

\* C17: at most one request is inside a storage operation, and it holds the
\* lock
C17_MutualExclusion ==
    [](/\ Cardinality(InStore) <= 1
       /\ \A r \in InStore : lock = r)

\* a request inside its insert transaction while the other waits for the lock
C17_Witness ==
    \E r \in Reqs, w \in Reqs :
        /\ pc[r] = "txn"
        /\ txnPos > 0
        /\ pc[w] \in {"wait1", "wait2"}

Min(a, b) == IF a <= b THEN a ELSE b

\* C18: when find_similar runs on a project that exists, no transaction is
\* open and the index it builds holds, in order, the vector of every block
\* of the ingests committed since the project was created and nothing else;
\* the search fails with EmptyIndex only if that number is 0
C18_SearchSeesCommittedIngests ==
    [][\A r \in Reqs :
          QueryCall(r, "search_embeddings")
          => LET rows == tables[req[r].name]
                 index == get_code_vectors(tables, req[r].name)
             IN  /\ journal = <<>>
                 /\ index.tag = "Ok"
                 /\ Len(index.val) = ingested[req[r].name]
                 /\ \A i \in 1..Len(index.val) :
                       index.val[i].point = ModelEmbed(BlockOfRow(rows[i]).content)
                 /\ resp'[r].status = "OK"
                    => Len(resp'[r].body.k_nearest)
                         = Min(SearchMatches, ingested[req[r].name])
                 /\ resp'[r].status = "EmptyIndex"
                    => ingested[req[r].name] = 0]_vars

\* a find_similar that answered from the records of two ingests of the
\* same block
C18_Witness ==
    \E r \in Reqs :
        /\ pc[r] = "done"
        /\ req[r].kind = "search_embeddings"
        /\ resp[r].status = "OK"
        /\ Len(resp[r].body.k_nearest) = 2
        /\ req[r].name \in DOMAIN tables
        /\ Len(tables[req[r].name]) = 2
        /\ Col(tables[req[r].name][1], 1) = Col(tables[req[r].name][2], 1)

\* request r is an ingest between its existence check and the end of its
\* insert, or a find_similar between its existence check and its answer
InProgress(r) ==
    /\ req[r].kind \in {"generate_embeddings", "search_embeddings"}
    /\ pc[r] \in {"cs1", "embed", "wait2", "cs2", "txn"}

\* C19: while an ingest or a find_similar is in progress no other request
\* is inside a storage operation
C19_LongRequestsBlockOthers ==
    [](\A r \in Reqs : \A o \in Reqs \ {r} :
          InProgress(r) => o \notin InStore)

\* ------------------------------------------------------------ searches
\* A server whose database holds one project, "a", with 1..MaxStored records
\* ingested earlier, and whose clients only search.
StoredBatches ==
    UNION { [1..n -> IngestedBlocks] : n \in 1..MaxStored }

EmbeddedBatch(blocks) ==
    [i \in 1..Len(blocks) |->
        [block |-> blocks[i], vectors |-> ModelEmbed(blocks[i].content)]]

InitSearch ==
    /\ \E blocks \in StoredBatches :
          /\ tables = [t \in {<<"a">>} |-> WithBatch(<<>>, EmbeddedBatch(blocks))]
          /\ ingested = [t \in {<<"a">>} |-> Len(blocks)]
    /\ journal = <<>>
    /\ txnPos = 0
    /\ lock = NoLock
    /\ pc = [r \in Reqs |-> "idle"]
    /\ req = [r \in Reqs |-> NoReq]
    /\ called = [r \in Reqs |-> <<>>]
    /\ seen = [r \in Reqs |-> NotSeen]
    /\ resp = [r \in Reqs |-> NoResp]
    /\ names = { <<"a">>, <<"A">> }
    /\ overtaken = {}

\* a search request arrives
StartSearch(r) == Start(r) /\ req'[r].kind = "search_embeddings"

NextSearch ==
    \E r \in Reqs :
        \/ StartSearch(r)
        \/ Deliver(r)
        \/ Lock(r)
        \/ check_project_exists(r)
        \/ search_embeddings(r)

SpecSearch == InitSearch /\ [][NextSearch]_vars

\* C20: for a project of n >= 1 records the k_nearest of a find_similar
\* answer has Min(5, n) entries, the texts of stored points in ascending
\* distance to the query, and every stored point strictly closer to the
\* query than the last entry is in the list
C20_KNearest ==
    [][\A r \in Reqs :
          (QueryCall(r, "search_embeddings") /\ resp'[r].status = "OK")
          => LET index == get_code_vectors(tables, req[r].name).val
                 n == Len(tables[req[r].name])
                 query == generate_code_vector(req[r].data, "ok").val
                 d(v) == SqDist(v.point, query.point)
                 ks == Nearests(index, query, SearchMatches)
                 k_nearest == resp'[r].body.k_nearest
             IN  /\ n >= 1
                 /\ Len(k_nearest) = Min(5, n)
                 /\ k_nearest = [j \in 1..Len(ks) |-> ks[j].code]
                 /\ \A j \in 1..Len(ks) : \E i \in 1..n : ks[j] = index[i]
                 /\ \A j \in 1..(Len(ks) - 1) : d(ks[j]) <= d(ks[j + 1])
                 /\ Cardinality({ i \in 1..n : d(index[i]) < d(ks[Len(ks)]) })
                      = Cardinality({ j \in 1..Len(ks) : d(ks[j]) < d(ks[Len(ks)]) })]_vars

\* a find_similar on MaxStored records that answered five texts, the first
\* of a closer point than the last
C20_Witness ==
    \E r \in Reqs :
        /\ pc[r] = "done"
        /\ req[r].kind = "search_embeddings"
        /\ resp[r].status = "OK"
        /\ Len(tables[req[r].name]) = MaxStored
        /\ Len(resp[r].body.k_nearest) = 5
        /\ resp[r].body.k_nearest[1] # resp[r].body.k_nearest[5]

\* C21: the nearest of a find_similar answer is the text of a stored point
\* that no stored point is closer to the query than, and the first of the
\* k_nearest is the text of a point at that same distance
C21_Nearest ==
    [][\A r \in Reqs :
          (QueryCall(r, "search_embeddings") /\ resp'[r].status = "OK")
          => LET index == get_code_vectors(tables, req[r].name).val
                 query == generate_code_vector(req[r].data, "ok").val
                 d(v) == SqDist(v.point, query.point)
                 Closest == { i \in 1..Len(index) :
                                \A j \in 1..Len(index) : d(index[i]) <= d(index[j]) }
                 body == resp'[r].body
             IN  /\ \E i \in Closest : body.nearest = index[i].code
                 /\ \E i \in Closest : body.k_nearest[1] = index[i].code
                 /\ \A i \in 1..Len(index) :
                       body.nearest = index[i].code => i \in Closest]_vars

\* a find_similar whose nearest is not the point stored first
C21_Witness ==
    \E r \in Reqs :
        /\ pc[r] = "done"
        /\ req[r].kind = "search_embeddings"
        /\ resp[r].status = "OK"
        /\ Len(tables[req[r].name]) >= 3
        /\ resp[r].body.nearest # Col(tables[req[r].name][1], 2)
        /\ resp[r].body.nearest # Col(tables[req[r].name][Len(tables[req[r].name])], 2)

\* C22: batch embedding answers one point per text, the i-th carrying the
\* i-th text and the vector of the i-th text; an ingest pairs block i with
\* vector i, and every stored record carries the vector of its own content
C22_EmbedManyOrdered ==
    /\ [][\A r \in Reqs :
             (pc[r] = "embed" /\ pc'[r] = "wait2")
             => LET blocks == [i \in 1..Len(req'[r].blocks) |-> req'[r].blocks[i].block]
                    texts == [i \in 1..Len(blocks) |-> blocks[i].content]
                    result == generate_vector_set(texts, "ok").val
                IN  /\ blocks \in Batches
                    /\ Len(result) = Len(texts)
                    /\ \A i \in 1..Len(texts) :
                          /\ result[i].code = texts[i]
                          /\ result[i].point = ModelEmbed(texts[i])
                          /\ req'[r].blocks[i].vectors = ModelEmbed(texts[i])]_vars
    /\ [](\A t \in DOMAIN tables : \A i \in 1..Len(tables[t]) :
             Col(tables[t][i], 7) = to_string_f32s(ModelEmbed(Col(tables[t][i], 3))))

\* a project holding two records of one batch whose vectors differ
C22_Witness ==
    \E t \in DOMAIN tables : \E i \in 1..Len(tables[t]) :
        /\ i + 1 <= Len(tables[t])
        /\ Col(tables[t][i], 3) = B1.content
        /\ Col(tables[t][i + 1], 3) = B2.content
        /\ Col(tables[t][i], 7) # Col(tables[t][i + 1], 7)
        /\ \E r \in Reqs : /\ pc[r] = "done"
                           /\ req[r].kind = "generate_embeddings"
                           /\ Len(req[r].blocks) = 2
                           /\ resp[r].status = "OK"

\* C23: DELETE /project/{name} answers 200 if the project existed and was
\* deleted, and 404 if no project of that name exists
C23_DeleteMissingNotFound ==
    [][\A r \in Reqs :
          (/\ StoreCall(r)
           /\ req[r].kind = "delete_project"
           /\ SpecValidName(req[r].name))
          => IF req[r].name \in DOMAIN tables
             THEN resp'[r].status = "OK" /\ req[r].name \notin DOMAIN tables'
             ELSE resp'[r].status = "NotFound"]_vars

\* C24: when the engine reports an error to an operation on a project that
\* exists, the operation ends with StorageFailure
C24_NoStorageErrorSwallowed ==
    [][\A r \in Reqs :
          (/\ StoreCall(r)
           /\ req[r].name \in DOMAIN tables
           /\ Last(called'[r]) = "storage error")
          => resp'[r].status = "StorageFailure"]_vars

\* the step is the storage operation of request r, which passed its
\* existence check, on a project no table answers to any more
AfterDelete(r) ==
    /\ req[r].kind \in CheckedKinds
    /\ SpecValidName(req[r].name)
    /\ TablesNamed(tables, req[r].name) = {}
    /\ lock = r
    /\ pc'[r] = "done"
    /\ \/ pc[r] = "cs2" /\ req[r].kind # "generate_embeddings"
       \/ pc[r] = "txn" /\ txnPos < Len(req[r].blocks)

\* C25: a checked request whose project was deleted between its existence
\* check and its storage operation ends with its success response or with
\* NotFound
C25_DeletedBetweenNotFound ==
    [][\A r \in Reqs :
          AfterDelete(r) => resp'[r].status \in {"OK", "NotFound"}]_vars

\* C26: create_project of a name matching [A-Za-z0-9_]+ that no project
\* answers to succeeds, and afterwards the project exists and project_info
\* reports no block
C26_CreateAnySpecName ==
    [][\A r \in Reqs :
          (/\ StoreCall(r)
           /\ req[r].kind = "create_project"
           /\ SpecValidName(req[r].name)
           /\ TablesNamed(tables, req[r].name) = {})
          => /\ resp'[r].status = "OK"
             /\ does_project_exist(tables', req[r].name) = Ok(TRUE)
             /\ get_project_info(tables', req[r].name, FALSE)
                  = Ok(Some([name |-> req[r].name, total_code_blocks |-> 0]))]_vars

C28_DimensionInvariant ==
    /\ [](\A t \in DOMAIN tables : \A i \in 1..Len(tables[t]) :
             /\ from_str_f32s(Col(tables[t][i], 7)).ok
             /\ from_str_f32s(Col(tables[t][i], 7)).val.len = VECTOR_SIZE)
    /\ [](\A r \in Reqs : \A i \in 1..Len(req[r].blocks) :
             req[r].blocks[i].vectors.len = VECTOR_SIZE)
    /\ [][\A r \in Reqs :
             /\ (QueryCall(r, "search_embeddings") /\ resp'[r].status = "OK")
                => LET index == get_code_vectors(tables, req[r].name).val
                   IN  /\ \A i \in 1..Len(index) : index[i].point.len = VECTOR_SIZE
                       /\ generate_code_vector(req[r].data, "ok").val.point.len
                            = VECTOR_SIZE
             /\ (/\ pc[r] = "embed" \/ QueryCall(r, "search_embeddings")
                 /\ Last(called'[r]) = "wrong dimension")
                => /\ pc'[r] = "done"
                   /\ resp'[r].status = "EmbeddingFailure"
                   /\ tables' = tables /\ journal' = journal]_vars

\* an ingest into a project holding records whose embedding came back with
\* another length
C28_Witness ==
    \E r \in Reqs :
        /\ pc[r] = "done"
        /\ req[r].kind = "generate_embeddings"
        /\ Last(called[r]) = "wrong dimension"
        /\ resp[r].status = "EmbeddingFailure"
        /\ TablesNamed(tables, req[r].name) # {}
        /\ Len(RowsOf(tables, req[r].name)) > 0

\* ------------------------------------------------------------ scheduling
\* a step of the handler of request r other than its search, or the sending
\* of its response
HandlerStep(r) ==
    \/ Deliver(r)
    \/ Lock(r)
    \/ create_project(r)
    \/ route_delete_project(r)
    \/ project_info(r)
    \/ check_project_exists(r)
    \/ generate_embeddings_embed(r)
    \/ insert_blocks_begin(r)
    \/ insert_blocks_execute(r)
    \/ insert_blocks_commit(r)
    \/ query_blocks(r)

\* the search of request r can run: the guard of search_embeddings(r), which
\* has a step for every outcome of the embedding
SearchReady(r) ==
    /\ Delivered
    /\ pc[r] = "cs2" /\ lock = r /\ req[r].kind = "search_embeddings"

\* the server starts on an empty store; its clients use one name SQLite
\* takes and one it does not
InitFair ==
    /\ tables = <<>>
    /\ journal = <<>>
    /\ txnPos = 0
    /\ ingested = <<>>
    /\ lock = NoLock
    /\ pc = [r \in Reqs |-> "idle"]
    /\ req = [r \in Reqs |-> NoReq]
    /\ called = [r \in Reqs |-> <<>>]
    /\ seen = [r \in Reqs |-> NotSeen]
    /\ resp = [r \in Reqs |-> NoResp]
    /\ names = { <<"a">>, <<"7">> }
    /\ overtaken = {}

\* The workers run on threads of their own and no store method suspends, so
\* a handler that can step does step; parking_lot's Mutex hands the lock to
\* a waiter that has waited long enough, so a handler that finds the lock
\* free again and again does take it.  Nothing makes a request arrive.
\* The search, which runs holding the lock, needs weak fairness only; it is
\* written out as WF_vars(search_embeddings(r)) with SearchReady(r) for the
\* enabling condition.
FairSpec ==
    /\ InitFair
    /\ [][Next]_vars
    /\ \A r \in Reqs : SF_vars(HandlerStep(r))
    /\ \A r \in Reqs : ([]<>~SearchReady(r)) \/ ([]<><<search_embeddings(r)>>_vars)

\* C29: every acquisition of the lock is followed by its release, a request
\* waiting for the lock acquires it, every request that arrived ends, no
\* handler waits for the lock while holding it, and no handler that ended
\* or works outside the store holds it
C29_LockReleasedAndProgress ==
    /\ \A r \in Reqs : (lock = r) ~> (lock # r)
    /\ \A r \in Reqs : (pc[r] \in {"wait1", "wait2"}) ~> (lock = r)
    /\ \A r \in Reqs : (pc[r] # "idle") ~> (pc[r] = "done")
    /\ [](\A r \in Reqs : pc[r] \in {"wait1", "wait2", "embed", "done", "idle"}
                          => lock # r)

\* a request whose storage operation failed inside the critical section has
\* ended and left the lock free while the other request waits for it
C29_Witness ==
    \E r \in Reqs : \E q \in Reqs \ {r} :
        /\ pc[r] = "done"
        /\ resp[r].status = "StorageFailure"
        /\ lock = NoLock
        /\ pc[q] \in {"wait1", "wait2"}

\* C30: for every valid project name p, project_exists(p) is true exactly
\* when project_info(p), the engine not failing, is not None
C30_ExistsAgreesWithInfo ==
    \A p \in names :
        SpecValidName(p)
        => (does_project_exist(tables, p) = Ok(TRUE)
            <=> get_project_info(tables, p, FALSE) \notin {Ok(None), InvalidName})

\* C31: a project exists exactly when a create_project of its name completed
\* after the last completed delete_project of its name.  Step by step: a
\* create_project(p) that completes makes p exist and a delete_project(p)
\* that completes ends it, neither changes whether another valid name
\* exists, and no other step changes the set of existing projects
C31_OnlyCreateAndDelete ==
    [][\A r \in Reqs :
          LET p == req[r].name
              Others == { q \in names : SpecValidName(q) /\ q # p }
              Completes(kind) ==
                  /\ StoreCall(r)
                  /\ req[r].kind = kind
                  /\ SpecValidName(p)
                  /\ resp'[r].status = "OK"
          IN  /\ Completes("create_project")
                 => /\ does_project_exist(tables', p) = Ok(TRUE)
                    /\ \A q \in Others :
                          does_project_exist(tables', q) = does_project_exist(tables, q)
              /\ Completes("delete_project")
                 => /\ does_project_exist(tables', p) = Ok(FALSE)
                    /\ \A q \in Others :
                          does_project_exist(tables', q) = does_project_exist(tables, q)
              /\ (\A q \in Reqs :
                     ~(StoreCall(q) /\ req[q].kind \in {"create_project", "delete_project"}))
                 => DOMAIN tables' = DOMAIN tables]_vars

\* C32: an ingest that passed its existence check before its project was
\* deleted never inserts its records into the project created again under
\* that name: no statement of its transaction adds a row, and its
\* insert_blocks does not commit a batch
C32_RefreshStartsClean ==
    [][\A r \in overtaken :
          (lock = r /\ pc[r] = "txn")
          => /\ \A t \in DOMAIN tables' :
                   t \in DOMAIN tables /\ Len(tables'[t]) <= Len(tables[t])
             /\ (Ends(r) /\ resp'[r].status = "OK") => req[r].blocks = <<>>]_vars

====
